---- MODULE Spec2Model ----
(***************************************************************************)
(* Model of the RISC-V instruction decoder of riscv-asm (src/decode.rs):   *)
(* the Bits helpers for u32 (bit, bits, sign_ext), the register            *)
(* conversion (src/instr.rs) and decode_opcode.  Words are 32-bit          *)
(* unsigned integers, immediates are i32 values; the arithmetic keeps      *)
(* Rust's width and its overflow rules (a panic when overflow checks are   *)
(* compiled in, wrapping and masked shift amounts otherwise).              *)
(***************************************************************************)
EXTENDS Integers, Sequences, FiniteSets

\* word: the u32 receiver of the call; args: the function called and its
\* scalar arguments; result: what the call returned; out: the lines written
\* so far; iter: the number of loop iterations completed
VARIABLES word, overflow_checks, args, result, pc, out, iter

vars == <<word, overflow_checks, args, result, pc, out, iter>>

(***************************************************************************)
(* Bounds of the explored input words.  A word is assembled from its six   *)
(* R-type fields; each field ranges over a low interval 0..Max plus fixed  *)
(* samples that reach the sign bits and the guarded funct7/funct12 values. *)
(***************************************************************************)
MaxUnknownOpcode == 0

MaxRd == 1

MaxRs1 == 1

MaxRs2 == 2

MaxFunct7 == 1

\* bit indices hi, lo, idx handed to the Bits helpers range over 0..MaxBitIdx
MaxBitIdx == 32

\* u32 register indices handed to Reg::try_from range over 0..MaxRegIdx
MaxRegIdx == 64

\* immediates of the instructions whose arguments are listed range over
\* -MaxArgImm..MaxArgImm (signed) and 0..MaxArgImm (unsigned)
MaxArgImm == 1

\* the .text section holds at most MaxSectionLen bytes
MaxSectionLen == 9

\* the listing is written from at most MaxEntries entries
MaxEntries == 2

(***************************************************************************)
(* Integer widths.  A u32 is represented by the set of the positions of    *)
(* its 1 bits (a subset of 0..31), so that bit 31 is an ordinary bit; u8,  *)
(* u16 and i32 values and shift amounts are integers.                      *)
(***************************************************************************)
Pow2(n) == 2 ^ n

U32_MAX == 0..31

\* the u32 with value n, 0 <= n < 2^31
U32(n) == {i \in 0..30 : (n \div Pow2(i)) % 2 = 1}

\* the value of a u32 whose bit 31 is clear
RECURSIVE Val(_)
Val(x) ==
    IF x = {} THEN 0
    ELSE LET i == CHOOSE j \in x : TRUE
         IN  Pow2(i) + Val(x \ {i})

\* `x as u8` of a u32: truncation to the low 8 bits
AsU8(x) == Val(x \cap (0..7))

\* `x as u8` of an i32: truncation to the low 8 bits
I32AsU8(n) == n % Pow2(8)

\* `x as u16` of a u32
AsU16(x) == Val(x \cap (0..15))

\* `x as u32` of an i32: two's-complement reinterpretation
AsU32(n) ==
    IF n >= 0 THEN U32(n)
    ELSE U32((n + Pow2(30)) + Pow2(30)) \cup {31}

\* `x as i32` of a u32: two's-complement reinterpretation
AsI32(x) ==
    IF 31 \in x THEN (Val(x \ {31}) - Pow2(30)) - Pow2(30)
    ELSE Val(x)

\* `hi + 1` on u8 when the overflow check is compiled out
WrapU8(n) == n % Pow2(8)

BitAnd(a, b) == a \cap b

BitOr(a, b) == a \cup b

\* A shift amount n overflows a u32 shift when n >= 32.
ShiftOverflows(n) == n < 0 \/ n >= 32

\* u32 >> n and u32 << n once the overflow check has passed or is compiled
\* out: the shift amount (wrapped to u32 or u8 first) is masked to 5 bits.
Shr(x, n) == {i - (n % 32) : i \in {j \in x : j >= n % 32}}

Shl(x, n) == {i + (n % 32) : i \in {j \in x : j + (n % 32) <= 31}}

(***************************************************************************)
(* impl Bits for u32                                                       *)
(***************************************************************************)
\* a shift by n panics when overflow checks are compiled in and n >= 32
shift_panics(oc, n) == oc /\ ShiftOverflows(n)

bit_panics(oc, idx) == shift_panics(oc, idx)

bit(w, idx) == BitAnd(Shr(w, idx), U32(1))

\* the subtraction `31 - hi` of bits(), before wrapping
mask_shift_30(hi) == 30 - hi

mask_shift(hi) == 31 - hi

bits_panics_asserting(oc, hi, lo) ==
    \/ hi < lo
    \/ oc /\ mask_shift(hi) < 0
    \/ shift_panics(oc, mask_shift(hi))
    \/ shift_panics(oc, lo)

bits_panics(oc, hi, lo) ==
    \/ oc /\ mask_shift(hi) < 0
    \/ shift_panics(oc, mask_shift(hi))
    \/ shift_panics(oc, lo)

bits_mask_from_lo(w, hi, lo) ==
    LET mask == Shr(U32_MAX, mask_shift(lo))
    IN  Shr(BitAnd(w, mask), lo)

bits_unshifted(w, hi, lo) ==
    LET mask == Shr(U32_MAX, mask_shift(hi))
    IN  BitAnd(w, mask)

bits(w, hi, lo) ==
    LET mask == Shr(U32_MAX, mask_shift(hi))
    IN  Shr(BitAnd(w, mask), lo)

\* `hi + 1` and the shift by it run only when bit hi is set
sign_ext_panics(oc, w, hi) ==
    \/ bit_panics(oc, hi)
    \/ /\ oc
       /\ hi + 1 > 255 \/ ShiftOverflows(hi + 1)
       /\ bit(w, hi) # U32(0)

sign_ext(w, hi) ==
    LET mask == IF bit(w, hi) = U32(0) THEN U32(0) ELSE Shl(U32_MAX, WrapU8(hi + 1))
    IN  AsI32(BitOr(w, mask))

(***************************************************************************)
(* Registers                                                               *)
(***************************************************************************)
RegNames ==
    << "Zero", "Ra", "Sp", "Gp", "Tp", "T0", "T1", "T2",
       "S0", "S1", "A0", "A1", "A2", "A3", "A4", "A5",
       "A6", "A7", "S2", "S3", "S4", "S5", "S6", "S7",
       "S8", "S9", "S10", "S11", "T3", "T4", "T5", "T6" >>

\* the discriminants of #[repr(u8)] enum Reg, read by `reg as u8`
RegDiscriminant ==
    [ Zero |-> 0, Ra |-> 1, Sp |-> 2, Gp |-> 3, Tp |-> 4, T0 |-> 5, T1 |-> 6,
      T2 |-> 7, S0 |-> 8, S1 |-> 9, A0 |-> 10, A1 |-> 11, A2 |-> 12, A3 |-> 13,
      A4 |-> 14, A5 |-> 15, A6 |-> 16, A7 |-> 17, S2 |-> 18, S3 |-> 19,
      S4 |-> 20, S5 |-> 21, S6 |-> 22, S7 |-> 23, S8 |-> 24, S9 |-> 25,
      S10 |-> 26, S11 |-> 27, T3 |-> 28, T4 |-> 29, T5 |-> 30, T6 |-> 31 ]

Reg_as_u8(r) == RegDiscriminant[r]

\* impl Default for Reg
Reg_default == "Zero"

Reg_try_from_below_31(idx) ==
    IF idx \in 0..30
    THEN [ok |-> TRUE, reg |-> RegNames[idx + 1]]
    ELSE [ok |-> FALSE, idx |-> idx]

Reg_try_from(idx) ==
    IF idx \in 0..31
    THEN [ok |-> TRUE, reg |-> RegNames[idx + 1]]
    ELSE [ok |-> FALSE, idx |-> idx]

\* TryFrom<u8>: widens the index and calls TryFrom<u32>
Reg_try_from_u8(idx) == Reg_try_from(idx)

unwrap_or(r, default) == IF r.ok THEN r.reg ELSE default

(***************************************************************************)
(* decode_opcode: field extraction                                         *)
(***************************************************************************)
opcode(w) == Val(bits(w, 6, 0))

funct3(w) == Val(bits(w, 14, 12))

rd_idx(w) == AsU8(bits(w, 11, 7))

rs2_idx(w) == AsU8(bits(w, 24, 20))

rs1_idx_6bit(w) == AsU8(bits(w, 20, 15))

rs1_idx(w) == AsU8(bits(w, 19, 15))

funct7(w) == Val(bits(w, 31, 25))

funct12(w) == Val(bits(w, 31, 20))

csr(w) == AsU16(bits(w, 31, 20))

rd(w) == unwrap_or(Reg_try_from(rd_idx(w)), "Zero")

rs2(w) == unwrap_or(Reg_try_from(rs2_idx(w)), "Zero")

rs1(w) == unwrap_or(Reg_try_from(rs1_idx(w)), "Zero")

imm5 == 0

imm12 == 0

imm20 == 0

(***************************************************************************)
(* decode_opcode: the five format-specific immediates                      *)
(***************************************************************************)
i_imm_ext12(w) == sign_ext(bits(w, 31, 20), 12)

i_imm(w) == sign_ext(bits(w, 31, 20), 11)

s_imm_shl4(w) == sign_ext(BitOr(Shl(bits(w, 31, 25), 4), bits(w, 11, 7)), 11)

s_imm(w) == sign_ext(BitOr(Shl(bits(w, 31, 25), 5), bits(w, 11, 7)), 11)

b_imm_raw(w) ==
    BitOr(BitOr(BitOr(Shl(bit(w, 31), 12),
                      Shl(bit(w, 7), 11)),
                Shl(bits(w, 30, 25), 5)),
          Shl(bits(w, 11, 8), 1))

b_imm_no_bit7(w) ==
    sign_ext(BitOr(BitOr(Shl(bit(w, 31), 12),
                         Shl(bits(w, 30, 25), 5)),
                   Shl(bits(w, 11, 8), 1)), 12)

b_imm(w) == sign_ext(b_imm_raw(w), 12)

u_imm_shifted(w) == Shl(bits(w, 31, 12), 12)

u_imm(w) == bits(w, 31, 12)

j_imm_raw(w) ==
    BitOr(BitOr(BitOr(Shl(bit(w, 31), 20),
                      Shl(bits(w, 19, 12), 12)),
                Shl(bit(w, 20), 11)),
          Shl(bits(w, 30, 21), 1))

j_imm_unshifted(w) ==
    sign_ext(BitOr(BitOr(BitOr(Shl(bit(w, 31), 20),
                               Shl(bits(w, 19, 12), 12)),
                         Shl(bit(w, 20), 11)),
                   Shl(bits(w, 30, 21), 0)), 20)

j_imm(w) == sign_ext(j_imm_raw(w), 20)

\* Every operation that runs before the match block, on every word: the
\* seven field extractions and the five immediate computations.
fields_panic(oc) ==
    \/ bits_panics(oc, 6, 0)
    \/ bits_panics(oc, 14, 12)
    \/ bits_panics(oc, 11, 7)
    \/ bits_panics(oc, 24, 20)
    \/ bits_panics(oc, 19, 15)
    \/ bits_panics(oc, 31, 25)
    \/ bits_panics(oc, 31, 20)

i_imm_panics(oc, w) ==
    \/ bits_panics(oc, 31, 20)
    \/ sign_ext_panics(oc, bits(w, 31, 20), 11)

s_imm_panics(oc, w) ==
    \/ bits_panics(oc, 31, 25)
    \/ shift_panics(oc, 5)
    \/ bits_panics(oc, 11, 7)
    \/ sign_ext_panics(oc, BitOr(Shl(bits(w, 31, 25), 5), bits(w, 11, 7)), 11)

b_imm_panics(oc, w) ==
    \/ bit_panics(oc, 31)
    \/ shift_panics(oc, 12)
    \/ bit_panics(oc, 7)
    \/ shift_panics(oc, 11)
    \/ bits_panics(oc, 30, 25)
    \/ shift_panics(oc, 5)
    \/ bits_panics(oc, 11, 8)
    \/ shift_panics(oc, 1)
    \/ sign_ext_panics(oc, b_imm_raw(w), 12)

u_imm_panics(oc) == bits_panics(oc, 31, 12)

j_imm_panics(oc, w) ==
    \/ bit_panics(oc, 31)
    \/ shift_panics(oc, 20)
    \/ bits_panics(oc, 19, 12)
    \/ shift_panics(oc, 12)
    \/ bit_panics(oc, 20)
    \/ shift_panics(oc, 11)
    \/ bits_panics(oc, 30, 21)
    \/ shift_panics(oc, 1)
    \/ sign_ext_panics(oc, j_imm_raw(w), 20)

prelude_panics(oc, w) ==
    \/ fields_panic(oc)
    \/ i_imm_panics(oc, w)
    \/ s_imm_panics(oc, w)
    \/ b_imm_panics(oc, w)
    \/ u_imm_panics(oc)
    \/ j_imm_panics(oc, w)

(***************************************************************************)
(* decode_opcode: the match block.  Arms are tried in source order; an arm *)
(* is a pattern on (opcode, funct3), Any standing for `_`, and an optional *)
(* `if` guard on the word, funct7 or funct12.                              *)
(***************************************************************************)
Any == -1

Arm(op, f3, g, v, variant) ==
    [opcode |-> op, funct3 |-> f3, guard |-> g, val |-> v, variant |-> variant]

\* the (opcode, funct3) arms, in source order
TableArms ==
    << Arm(3, 0, "none", 0, "Lb"),
       Arm(3, 1, "none", 0, "Lh"),
       Arm(3, 2, "none", 0, "Lw"),
       Arm(3, 3, "none", 0, "Ld"),
       Arm(3, 4, "none", 0, "Lbu"),
       Arm(3, 5, "none", 0, "Lhu"),
       Arm(3, 6, "none", 0, "Lwu"),
       Arm(15, 0, "none", 0, "Fence"),
       Arm(15, 1, "none", 0, "FenceI"),
       Arm(19, 0, "none", 0, "Addi"),
       Arm(19, 1, "funct7", 0, "Slli"),
       Arm(19, 2, "none", 0, "Slti"),
       Arm(19, 3, "none", 0, "Sltiu"),
       Arm(19, 4, "none", 0, "Xori"),
       Arm(19, 5, "funct7", 0, "Srli"),
       Arm(19, 5, "funct7", 32, "Srai"),
       Arm(19, 6, "none", 0, "Ori"),
       Arm(19, 7, "none", 0, "Andi"),
       Arm(23, Any, "none", 0, "Auipc"),
       Arm(35, 0, "none", 0, "Sb"),
       Arm(35, 1, "none", 0, "Sh"),
       Arm(35, 2, "none", 0, "Sw"),
       Arm(35, 3, "none", 0, "Sd"),
       Arm(51, 0, "funct7", 0, "Add"),
       Arm(51, 0, "funct7", 32, "Sub"),
       Arm(51, 1, "none", 0, "Sll"),
       Arm(51, 2, "none", 0, "Slt"),
       Arm(51, 3, "none", 0, "Sltu"),
       Arm(51, 4, "none", 0, "Xor"),
       Arm(51, 5, "funct7", 0, "Srl"),
       Arm(51, 5, "funct7", 32, "Sra"),
       Arm(51, 6, "none", 0, "Or"),
       Arm(51, 7, "none", 0, "And"),
       Arm(55, Any, "none", 0, "Lui"),
       Arm(99, 0, "none", 0, "Beq"),
       Arm(99, 1, "none", 0, "Bne"),
       Arm(99, 4, "none", 0, "Blt"),
       Arm(99, 5, "none", 0, "Bge"),
       Arm(99, 6, "none", 0, "Bltu"),
       Arm(99, 7, "none", 0, "Bgeu"),
       Arm(103, 0, "none", 0, "Jalr"),
       Arm(111, Any, "none", 0, "Jal"),
       Arm(115, 0, "funct7", 0, "Ecall"),
       Arm(115, 0, "funct7", 1, "Ebreak"),
       Arm(115, 0, "funct12", 770, "Wfi"),
       Arm(115, 0, "funct12", 261, "Mret"),
       Arm(115, 1, "none", 0, "Csrrw"),
       Arm(115, 2, "none", 0, "Csrrs"),
       Arm(115, 3, "none", 0, "Csrrc"),
       Arm(115, 5, "none", 0, "Csrrwi"),
       Arm(115, 6, "none", 0, "Csrrsi"),
       Arm(115, 7, "none", 0, "Csrrci") >>

\* the leading `_ if w == 0x0` arm
ZeroArm == Arm(Any, Any, "w", 0, "Illegal")

Arms_no_zero_arm == TableArms

Arms == <<ZeroArm>> \o TableArms

GuardHolds_unguarded(a, w, f7, f12) ==
    a.guard = "w" => w = U32(a.val)

GuardHolds(a, w, f7, f12) ==
    CASE a.guard = "none" -> TRUE
      [] a.guard = "w" -> w = U32(a.val)
      [] a.guard = "funct7" -> f7 = a.val
      [] a.guard = "funct12" -> f12 = a.val

ArmMatches(a, w, op, f3, f7, f12) ==
    /\ a.opcode = Any \/ a.opcode = op
    /\ a.funct3 = Any \/ a.funct3 = f3
    /\ GuardHolds(a, w, f7, f12)

\* The instruction an arm constructs
Build(variant, w) ==
    CASE variant = "Illegal" -> [variant |-> variant]
      [] variant \in {"Lb", "Lh", "Lw", "Ld", "Addi", "Andi", "Jalr"} ->
            [variant |-> variant, rd |-> rd(w), rs1 |-> rs1(w), imm |-> i_imm(w)]
      [] variant \in {"Lbu", "Lhu", "Lwu"} ->
            [variant |-> variant, rd |-> rd(w), rs1 |-> rs1(w), imm |-> AsU32(i_imm(w))]
      [] variant = "Fence" ->
            [variant |-> variant, rd |-> rd(w), rs1 |-> rs1(w),
             successor |-> AsU8(bits(w, 27, 24)),
             predecessor |-> AsU8(bits(w, 23, 20)),
             fm |-> AsU8(bits(w, 31, 28))]
      [] variant \in {"FenceI", "Slti", "Sltiu", "Xori", "Ori"} ->
            [variant |-> variant, rd |-> rd(w), rs1 |-> rs1(w), imm12 |-> imm12]
      [] variant = "Slli" ->
            [variant |-> variant, rd |-> rd(w), rs1 |-> rs1(w), imm5 |-> I32AsU8(i_imm(w))]
      [] variant \in {"Srli", "Srai"} ->
            [variant |-> variant, rd |-> rd(w), rs1 |-> rs1(w), imm5 |-> imm5]
      [] variant \in {"Auipc", "Lui"} ->
            [variant |-> variant, rd |-> rd(w), imm |-> u_imm(w)]
      [] variant \in {"Sb", "Sh", "Sw", "Sd"} ->
            [variant |-> variant, rs1 |-> rs1(w), rs2 |-> rs2(w), imm |-> s_imm(w)]
      [] variant \in {"Add", "Sub", "Sll", "Slt", "Sltu", "Xor", "Srl", "Sra", "Or", "And"} ->
            [variant |-> variant, rd |-> rd(w), rs1 |-> rs1(w), rs2 |-> rs2(w)]
      [] variant \in {"Beq", "Bne", "Blt", "Bge", "Bltu", "Bgeu"} ->
            [variant |-> variant, rs1 |-> rs1(w), rs2 |-> rs2(w), imm |-> b_imm(w)]
      [] variant = "Jal" ->
            [variant |-> variant, rd |-> rd(w), imm |-> j_imm(w)]
      [] variant \in {"Ecall", "Ebreak"} ->
            [variant |-> variant, rd |-> rd(w), rs1 |-> rs1(w)]
      [] variant \in {"Wfi", "Mret"} -> [variant |-> variant]
      [] variant = "Csrrw" ->
            [variant |-> variant, rs1 |-> rs1(w), imm12 |-> AsU32(imm12)]
      [] variant = "Csrrs" ->
            [variant |-> variant, rd |-> rd(w), rs1 |-> rs1(w), imm12 |-> AsU32(imm12)]
      [] variant = "Csrrc" -> [variant |-> variant, rs1 |-> rs1(w)]
      [] variant = "Csrrwi" -> [variant |-> variant, rd |-> rd(w)]
      [] variant \in {"Csrrsi", "Csrrci"} ->
            [variant |-> variant, imm5 |-> imm5, imm12 |-> AsU32(imm12)]

\* Operations inside the arm that fires (only the Fence arm computes any)
Build_panics(oc, variant) ==
    /\ variant = "Fence"
    /\ \/ bits_panics(oc, 27, 24)
       \/ bits_panics(oc, 23, 20)
       \/ bits_panics(oc, 31, 28)

\* Indices of the arms whose pattern and guard accept w
Matching(w) ==
    LET op == opcode(w)
        f3 == funct3(w)
        f7 == funct7(w)
        f12 == funct12(w)
    IN  {i \in 1..Len(Arms) : ArmMatches(Arms[i], w, op, f3, f7, f12)}

\* match takes the first arm that accepts; 0 stands for the final `_` arm
FirstMatch(w) ==
    LET m == Matching(w)
    IN  IF m = {} THEN 0 ELSE CHOOSE i \in m : \A j \in m : i <= j

Panicked == [tag |-> "Panic"]

None == [tag |-> "None"]

Some(instr) == [tag |-> "Some", instr |-> instr]

decode_opcode(oc, w) ==
    IF prelude_panics(oc, w) THEN Panicked
    ELSE LET k == FirstMatch(w)
         IN  IF k = 0 THEN None
             ELSE IF Build_panics(oc, Arms[k].variant) THEN Panicked
             ELSE Some(Build(Arms[k].variant, w))

(***************************************************************************)
(* The words that are decoded: the words of the decoder's own fixtures,    *)
(* and the product of the sampled field values.                            *)
(***************************************************************************)
\* u32::from_le_bytes: byte k supplies bits 8k..8k+7
from_be_bytes(b) ==
    UNION { {i + 8 * (4 - k) : i \in U32(b[k])} : k \in 1..4 }

from_le_bytes(b) ==
    UNION { {i + 8 * (k - 1) : i \in U32(b[k])} : k \in 1..4 }

\* the little-endian bytes of the instruction fixtures
FixtureBytes ==
    {
       <<  0,   0,   0,   0>>,  \* check_zero_word [00 00 00 00]
       <<115,  16,   0, 192>>,  \* check_unimp [73 10 00 c0]
       << 51,   4,   1,   0>>,  \* check_add_s0_sp_zero [33 04 01 00]
       << 51, 134, 183,   0>>,  \* check_add_a2_a5_a1 [33 86 b7 00]
       <<179, 130, 114,   0>>,  \* check_add_t0_t0_t2 [b3 82 72 00]
       << 19,   1,   1,   4>>,  \* check_addi_sp_sp_64 [13 01 01 04]
       << 19,   3, 243, 255>>,  \* check_addi_t1_t1_neg_1 [13 03 f3 ff]
       << 19,   5,   1,   2>>,  \* check_addi_a0_sp_32 [13 05 01 02]
       <<147,   8, 245, 238>>,  \* check_addi_a7_a0_neg_273 [93 08 f5 ee]
       <<147, 130,   2, 128>>,  \* check_addi_t0_t0_neg_2048 [93 82 02 80]
       << 51, 117, 181,   0>>,  \* check_and_a0_a0_a1 [33 75 b5 00]
       << 19, 118,  22,   0>>,  \* check_andi_a2_a2_1 [13 76 16 00]
       << 23,  65,   0,   0>>,  \* check_auipc_sp_4 [17 41 00 00]
       <<151,  17,   0,   0>>,  \* check_auipc_gp_1 [97 11 00 00]
       << 99,   6,   5,   0>>,  \* check_beq_a0_zero_12 [63 06 05 00]
       << 99, 218, 165,   0>>,  \* check_beq_a1_a0_20 [63 da a5 00]
       << 99, 114, 181,   2>>,  \* check_bgeu_a0_a1_36 [63 72 b5 02]
       <<227, 232, 165, 254>>,  \* check_bltu_a1_a0_neg_16 [e3 e8 a5 fe]
       <<227,  16, 110, 252>>,  \* check_bne_t3_t1_neg_64 [e3 10 6e fc]
       <<115,  37,  32,  52>>,  \* check_csrr_a0_mcause [73 25 20 34]
       <<115,  37,  64, 241>>,  \* check_cssr_a0_mhartid [73 25 40 f1]
       <<115, 144,  82,  48>>,  \* check_csrw_mtvec_t0 [73 90 52 30]
       <<115,  80,  64,  48>>,  \* check_csrwi_mie_0 [73 50 40 30]
       <<115,  80,  64,  52>>,  \* check_csrwi_mip_0 [73 50 40 34]
       << 15,   0,  48,   3>>,  \* check_fence_rw_rw [0f 00 30 03]
       <<111,   0,   0,   0>>,  \* check_j_0 [6f 00 00 00]
       <<111,   0,  64,  56>>,  \* check_j_900 [6f 00 40 38]
       <<111, 240,  31, 250>>,  \* check_j_neg_96 [6f f0 1f fa]
       <<239,   0, 192,   4>>,  \* check_jal_76 [ef 00 c0 04]
       <<231,   0,   5,   0>>,  \* check_jalr_a0 [e7 00 05 00]
       <<231, 128, 128,  45>>,  \* check_jalr_728_ra [e7 80 80 2d]
       << 55,   5,   0,   0>>,  \* check_lui_a0_0 [37 05 00 00]
       << 55,  21,   0,   0>>,  \* check_lui_a0_1 [37 15 00 00]
       << 55,  37,   0,   0>>,  \* check_lui_a0_2 [37 25 00 00]
       << 55, 197, 173, 222>>,  \* check_lui_a0_912092 [37 c5 ad de]
       <<183,   0,   0,   0>>,  \* check_lui_ra_0 [b7 00 00 00]
       <<183,   2,   0,   0>>,  \* check_lui_t0_0 [b7 02 00 00]
       <<183,   5,   0,   0>>,  \* check_lui_a1_0 [b7 05 00 00]
       <<183, 165, 171, 164>>,  \* check_lui_a1_674490 [b7 a5 ab a4]
       <<  3,  35, 129,   0>>,  \* check_lw_t1_8_sp [03 23 81 00]
       <<  3,  40, 129,   3>>,  \* check_lw_a6_56_sp [03 28 81 03]
       <<131,  47, 193,   1>>,  \* check_lw_t6_28_sp [83 2f c1 01]
       <<115,   0,  32,  48>>,  \* check_mret [73 00 20 30]
       <<103, 128,   0,   0>>,  \* check_ret [67 80 00 00]
       << 35, 128, 197,   0>>,  \* check_sb_a2_a1_0 [23 80 c5 00]
       << 35,  38, 209,   2>>,  \* check_sw_a3_sp_44 [23 26 d1 02]
       << 19,  21,  37,   0>>,  \* check_slli_a0_a0_2 [13 15 25 00]
       << 51,   1,  81,  64>>,  \* check_sub_sp_sp_t0 [33 01 51 40]
       <<115,   0,  80,  16>>,  \* check_wfi [73 00 50 10]
       << 51, 198, 213,   0>>   \* check_xor_a2_a1_a3 [33 c6 d5 00]
    }

Fixtures == {from_le_bytes(b) : b \in FixtureBytes}

MkWord(op, rdi, f3, rs1i, rs2i, f7) ==
    BitOr(U32(op + rdi * Pow2(7) + f3 * Pow2(12) + rs1i * Pow2(15) + rs2i * Pow2(20)),
          Shl(U32(f7), 25))

KnownOpcodes == {3, 15, 19, 23, 35, 51, 55, 99, 103, 111, 115}

OpcodeSamples == KnownOpcodes \cup (0..MaxUnknownOpcode) \cup {127}

RdSamples == (0..MaxRd) \cup {21, 31}

Rs1Samples == (0..MaxRs1) \cup {31}

Rs2Samples == (0..MaxRs2) \cup {5, 31}

Funct7Samples == (0..MaxFunct7) \cup {8, 24, 32, 64, 96, 127}

Words ==
    Fixtures \cup
    { MkWord(op, rdi, f3, rs1i, rs2i, f7) :
        op \in OpcodeSamples, rdi \in RdSamples, f3 \in 0..7,
        rs1i \in Rs1Samples, rs2i \in Rs2Samples, f7 \in Funct7Samples }

Pending == [tag |-> "Pending"]

DecodeArgs == [fn |-> "decode_opcode"]

Init ==
    /\ word \in Words
    /\ overflow_checks \in BOOLEAN
    /\ args = DecodeArgs
    /\ result = Pending
    /\ pc = "start"
    /\ out = <<>>
    /\ iter = 0

\* One call of decode_opcode(word), as in brute_force_decode and the
\* instruction fixtures.
Decode ==
    /\ pc = "start"
    /\ result' = decode_opcode(overflow_checks, word)
    /\ pc' = "done"
    /\ UNCHANGED <<word, overflow_checks, args, out, iter>>

Next == Decode

Spec == Init /\ [][Next]_vars

TypeOK ==
    /\ word \subseteq U32_MAX
    /\ overflow_checks \in BOOLEAN
    /\ args = DecodeArgs
    /\ pc \in {"start", "done"}
    /\ result.tag \in {"Pending", "Some", "None", "Panic"}

(***************************************************************************)
(* Direct calls of the Bits helpers (check_bits, check_bits_sign_ext): a   *)
(* receiver word and the u8 arguments are chosen, then the helper is       *)
(* called once.                                                            *)
(***************************************************************************)
Ret(v) == [tag |-> "Ret", val |-> v]

U8_MAX == 255

\* const W: u32 = 0xdead_beef
TestWord == from_le_bytes(<<239, 190, 173, 222>>)

BitsWords ==
    { TestWord, U32(0), U32_MAX, U32(1), U32(16399), {31}, 0..30, {2, 31} }

SignExtWords ==
    BitsWords \cup {0..k : k \in 0..31} \cup {{k} : k \in 0..31}
              \cup {{0, k} : k \in 1..31}

BitIdx == 0..MaxBitIdx

InitBits ==
    /\ overflow_checks \in BOOLEAN
    /\ \/ /\ word \in BitsWords
          /\ args \in [fn : {"bits"}, hi : BitIdx, lo : BitIdx]
       \/ /\ word \in SignExtWords
          /\ args \in [fn : {"bit"}, idx : BitIdx]
       \/ /\ word \in SignExtWords
          /\ args \in [fn : {"sign_ext"}, hi : BitIdx]
    /\ result = Pending
    /\ pc = "start"
    /\ out = <<>>
    /\ iter = 0

CallBits ==
    /\ pc = "start"
    /\ args.fn = "bits"
    /\ result' = IF bits_panics(overflow_checks, args.hi, args.lo) THEN Panicked
                 ELSE Ret(bits(word, args.hi, args.lo))
    /\ pc' = "done"
    /\ UNCHANGED <<word, overflow_checks, args, out, iter>>

CallBit ==
    /\ pc = "start"
    /\ args.fn = "bit"
    /\ result' = IF bit_panics(overflow_checks, args.idx) THEN Panicked
                 ELSE Ret(bit(word, args.idx))
    /\ pc' = "done"
    /\ UNCHANGED <<word, overflow_checks, args, out, iter>>

CallSignExt ==
    /\ pc = "start"
    /\ args.fn = "sign_ext"
    /\ result' = IF sign_ext_panics(overflow_checks, word, args.hi) THEN Panicked
                 ELSE Ret(sign_ext(word, args.hi))
    /\ pc' = "done"
    /\ UNCHANGED <<word, overflow_checks, args, out, iter>>

NextBits == CallBits \/ CallBit \/ CallSignExt

SpecBits == InitBits /\ [][NextBits]_vars

(***************************************************************************)
(* Direct calls of Reg::try_from, on a u32 or on a u8 index.               *)
(***************************************************************************)
InitReg ==
    /\ word = U32(0)
    /\ overflow_checks = FALSE
    /\ \/ args \in [fn : {"try_from_u32"}, idx : 0..MaxRegIdx]
       \/ args \in [fn : {"try_from_u8"}, idx : 0..U8_MAX]
    /\ result = Pending
    /\ pc = "start"
    /\ out = <<>>
    /\ iter = 0

TryFromU32 ==
    /\ pc = "start"
    /\ args.fn = "try_from_u32"
    /\ result' = Ret(Reg_try_from(args.idx))
    /\ pc' = "done"
    /\ UNCHANGED <<word, overflow_checks, args, out, iter>>

TryFromU8 ==
    /\ pc = "start"
    /\ args.fn = "try_from_u8"
    /\ result' = Ret(Reg_try_from_u8(args.idx))
    /\ pc' = "done"
    /\ UNCHANGED <<word, overflow_checks, args, out, iter>>

NextReg == TryFromU32 \/ TryFromU8

SpecReg == InitReg /\ [][NextReg]_vars

(***************************************************************************)
(* Instr::args: the arguments of an instruction value, in display order.   *)
(* The instruction values are those of enum Instr, with its field names.   *)
(***************************************************************************)
Register(reg) == [arg |-> "Register", reg |-> reg]

UnsignedImm(value) == [arg |-> "UnsignedImm", value |-> value]

SignedImm(value) == [arg |-> "SignedImm", value |-> value]

Special(text) == [arg |-> "Special", text |-> text]

Address(base, offset) == [arg |-> "Address", base |-> base, offset |-> offset]

Jalr_args_always_two(i) == <<Register(i.rd), Address(i.rs1, i.imm)>>

\* the two Jalr arms: `Jalr { rd: Ra, .. }` is tried first
Jalr_args(i) ==
    IF i.rd = "Ra" THEN <<Address(i.rs1, i.imm)>>
    ELSE <<Register(i.rd), Address(i.rs1, i.imm)>>

Instr_args(i) ==
    LET v == i.variant
    IN  CASE v \in {"Illegal", "Hint"} -> <<>>
          [] v \in {"Add", "And", "Or", "Sub", "Xor"} ->
                <<Register(i.rd), Register(i.rs1), Register(i.rs2)>>
          [] v \in {"Addi", "Andi"} ->
                <<Register(i.rd), Register(i.rs1), SignedImm(i.imm)>>
          [] v \in {"Ori", "Xori", "FenceI"} ->
                <<Register(i.rd), Register(i.rs1), SignedImm(i.imm12)>>
          [] v \in {"Auipc", "Lui"} -> <<Register(i.rd), UnsignedImm(i.imm)>>
          [] v \in {"Beq", "Bge", "Bgeu", "Blt", "Bltu", "Bne"} ->
                <<Register(i.rs1), Register(i.rs2), SignedImm(i.imm)>>
          [] v \in {"Csrrc", "Csrrci", "Csrrs", "Csrrsi", "Csrrw", "Csrrwi",
                    "Ebreak", "Ecall"} -> <<>>
          [] v = "Fence" ->
                <<Register(i.rd), Register(i.rs1),
                  Special([succ |-> i.successor, pred |-> i.predecessor,
                           fm |-> i.fm])>>
          [] v = "Jal" -> <<Register(i.rd), SignedImm(i.imm)>>
          [] v = "Jalr" -> Jalr_args(i)
          [] v \in {"Lb", "Ld", "Lh", "Lw"} ->
                <<Register(i.rd), Address(i.rs1, i.imm)>>
          [] v \in {"Lbu", "Lhu", "Lwu"} -> <<Register(i.rd)>>
          [] v = "Mret" -> <<>>
          [] v \in {"Sb", "Sd", "Sh", "Sw"} ->
                <<Register(i.rs2), Address(i.rs1, i.imm)>>
          [] v \in {"Sll", "Slli", "Slt", "Slti", "Sltiu", "Sltu", "Sra",
                    "Srai", "Sret", "Srl", "Srli"} -> <<>>
          [] v \in {"Uret", "Wfi"} -> <<>>

ArgRegSamples == {"Zero", "Ra", "A0"}

SignedImmSamples == (0 - MaxArgImm)..MaxArgImm

UnsignedImmSamples == {U32(n) : n \in 0..MaxArgImm}

SmallImmSamples == 0..MaxArgImm

\* values of enum Instr
InstrSamples ==
    [variant : {"Lb", "Lh", "Lw", "Ld", "Addi", "Andi", "Jalr"},
     rd : ArgRegSamples, rs1 : ArgRegSamples, imm : SignedImmSamples]
    \cup [variant : {"Lbu", "Lhu", "Lwu"},
          rd : ArgRegSamples, rs1 : ArgRegSamples, imm : UnsignedImmSamples]
    \cup [variant : {"FenceI", "Slti", "Sltiu", "Xori", "Ori"},
          rd : ArgRegSamples, rs1 : ArgRegSamples, imm12 : SignedImmSamples]
    \cup [variant : {"Slli", "Srli", "Srai"},
          rd : ArgRegSamples, rs1 : ArgRegSamples, imm5 : SmallImmSamples]
    \cup [variant : {"Add", "Sub", "Sll", "Slt", "Sltu", "Xor", "Srl", "Sra",
                     "Or", "And"},
          rd : ArgRegSamples, rs1 : ArgRegSamples, rs2 : ArgRegSamples]
    \cup [variant : {"Auipc", "Lui"}, rd : ArgRegSamples, imm : UnsignedImmSamples]
    \cup [variant : {"Jal"}, rd : ArgRegSamples, imm : SignedImmSamples]
    \cup [variant : {"Sb", "Sh", "Sw", "Sd", "Beq", "Bne", "Blt", "Bge", "Bltu",
                     "Bgeu"},
          rs1 : ArgRegSamples, rs2 : ArgRegSamples, imm : SignedImmSamples]
    \cup [variant : {"Fence"}, rd : ArgRegSamples, rs1 : ArgRegSamples,
          successor : SmallImmSamples, predecessor : SmallImmSamples,
          fm : SmallImmSamples]
    \cup [variant : {"Ecall", "Ebreak"}, rd : ArgRegSamples, rs1 : ArgRegSamples]
    \cup [variant : {"Illegal", "Wfi", "Uret", "Sret", "Mret"}]
    \cup [variant : {"Hint"}, hint : {<<>>}]
    \cup [variant : {"Csrrw", "Csrrs", "Csrrc"},
          rd : ArgRegSamples, rs1 : ArgRegSamples, csr : SmallImmSamples]
    \cup [variant : {"Csrrwi", "Csrrsi", "Csrrci"},
          rd : ArgRegSamples, src : SmallImmSamples, csr : SmallImmSamples]

InitArgs ==
    /\ word = U32(0)
    /\ overflow_checks = FALSE
    /\ args \in [fn : {"args"}, instr : InstrSamples]
    /\ result = Pending
    /\ pc = "start"
    /\ out = <<>>
    /\ iter = 0

CallArgs ==
    /\ pc = "start"
    /\ args.fn = "args"
    /\ result' = Ret(Instr_args(args.instr))
    /\ pc' = "done"
    /\ UNCHANGED <<word, overflow_checks, args, out, iter>>

NextArgs == CallArgs

SpecArgs == InitArgs /\ [][NextArgs]_vars

(***************************************************************************)
(* Code extraction: parse_elf_from_path and parse_elf of the library, and  *)
(* main of the stand-alone disassembler with its extract_code and its      *)
(* listing loops.  The parsed object is given by its kind and, for an ELF, *)
(* by its section headers in order.                                        *)
(***************************************************************************)
Ok(v) == [tag |-> "Ok", val |-> v]

Err(e) == [tag |-> "Err", err |-> e]

Unit == <<>>

ByteSamples == {0, 19}

ByteSeqs == UNION {[1..n -> ByteSamples] : n \in 0..MaxSectionLen}

\* a section header: its name, whether sh_offset..sh_offset+sh_size lies
\* inside the file buffer, and the bytes found there
DataSection == [name |-> ".data", in_buffer |-> TRUE, bytes |-> <<0>>]

TextSections == [name : {".text"}, in_buffer : BOOLEAN, bytes : ByteSeqs]

LaterTextSection == [name |-> ".text", in_buffer |-> TRUE, bytes |-> <<>>]

SectionLists ==
    {<<>>, <<DataSection>>}
        \cup {<<t>> : t \in TextSections}
        \cup {<<DataSection, t>> : t \in TextSections}
        \cup {<<t, LaterTextSection>> : t \in TextSections}

ElfFiles == [kind : {"Elf"}, sections : SectionLists]

\* what fs::read and Object::parse make of the input path
Files ==
    [kind : {"unreadable", "unparsable", "PE", "Mach", "Archive", "Unknown"}]
        \cup ElfFiles

\* index of the first section named ".text", 0 when the loop finds none
TextIndex(sections) ==
    LET found == {i \in 1..Len(sections) : sections[i].name = ".text"}
    IN  IF found = {} THEN 0 ELSE CHOOSE i \in found : \A j \in found : i <= j

\* bytes.chunks_exact(4).map(u32::from_le_bytes).collect()
ChunkWords(bytes) ==
    [k \in 1..(Len(bytes) \div 4) |-> from_le_bytes(SubSeq(bytes, 4 * k - 3, 4 * k))]

FoundLine(bytes) == [line |-> "found", bytes |-> Len(bytes)]

parse_elf(sections) ==
    LET t == TextIndex(sections)
    IN  IF t = 0 THEN Panicked
        ELSE IF ~sections[t].in_buffer THEN Panicked
        ELSE Ok(ChunkWords(sections[t].bytes))

\* the println! of parse_elf and of extract_code
parse_elf_output(sections) ==
    LET t == TextIndex(sections)
    IN  IF t # 0 /\ sections[t].in_buffer THEN <<FoundLine(sections[t].bytes)>>
        ELSE <<>>

parse_elf_from_path(file) ==
    CASE file.kind = "unreadable" -> Err("io")
      [] file.kind = "unparsable" -> Err("parse")
      [] file.kind \in {"PE", "Mach", "Archive", "Unknown"} -> Panicked
      [] file.kind = "Elf" -> parse_elf(file.sections)

\* extract_code of the stand-alone disassembler: the words, or a panic
extract_code(sections) ==
    LET t == TextIndex(sections)
    IN  IF t = 0 THEN Panicked
        ELSE IF ~sections[t].in_buffer THEN Panicked
        ELSE Ret(ChunkWords(sections[t].bytes))

\* decode_opcode of the stand-alone disassembler: the text it returns
dis_decode_opcode(w) ==
    LET op == opcode(w)
        f3 == funct3(w)
        f7 == funct7(w)
        f12 == funct12(w)
        m == {i \in 1..Len(TableArms) :
                 ArmMatches(TableArms[i], w, op, f3, f7, f12)}
    IN  IF m = {} THEN [fmt |-> "opcode", opcode |-> op]
        ELSE [fmt |-> "instr",
              variant |-> TableArms[CHOOSE i \in m : \A j \in m : i <= j].variant]

Min(a, b) == IF a <= b THEN a ELSE b

\* the hex dump: WORDS_PER_LINE = 4 words per line
HexLines(code) ==
    [j \in 1..((Len(code) + 3) \div 4) |->
        [line |-> "hex", addr |-> 4 * (j - 1),
         words |-> SubSeq(code, 4 * j - 3, Min(4 * j, Len(code)))]]

\* size_of::<u32>() * INSTR_PER_LINE * idx
AsmAddr(i) == 4 * 1 * i

AsmLine(code, i) ==
    [line |-> "asm", addr |-> AsmAddr(i), text |-> dis_decode_opcode(code[i + 1])]

InitElf ==
    /\ word = U32(0)
    /\ overflow_checks = FALSE
    /\ \/ args \in [fn : {"parse_elf_from_path"}, file : Files]
       \/ args \in [fn : {"parse_elf"}, file : ElfFiles]
       \/ args \in [fn : {"main"}, file : Files, debug_written : BOOLEAN]
    /\ result = Pending
    /\ pc = "start"
    /\ out = <<>>
    /\ iter = 0

ParseElfFromPath ==
    /\ pc = "start"
    /\ args.fn = "parse_elf_from_path"
    /\ result' = parse_elf_from_path(args.file)
    /\ out' = IF args.file.kind = "Elf" THEN parse_elf_output(args.file.sections)
              ELSE <<>>
    /\ pc' = "done"
    /\ UNCHANGED <<word, overflow_checks, args, iter>>

ParseElf ==
    /\ pc = "start"
    /\ args.fn = "parse_elf"
    /\ result' = parse_elf(args.file.sections)
    /\ out' = parse_elf_output(args.file.sections)
    /\ pc' = "done"
    /\ UNCHANGED <<word, overflow_checks, args, iter>>

\* the words main lists, once extract_code has returned them
MainCode == extract_code(args.file.sections).val

\* main up to the "ASM:" heading: read, parse, debug dump, extract_code, hex
\* dump
MainStart ==
    /\ pc = "start"
    /\ args.fn = "main"
    /\ UNCHANGED <<word, overflow_checks, args, iter>>
    /\ CASE args.file.kind = "unreadable" ->
                result' = Err("io") /\ pc' = "done" /\ out' = out
         [] args.file.kind = "unparsable" ->
                result' = Err("parse") /\ pc' = "done" /\ out' = out
         [] args.file.kind \in {"PE", "Mach", "Archive", "Unknown"} ->
                result' = Ok(Unit) /\ pc' = "done" /\ out' = out
         [] args.file.kind = "Elf" ->
                IF ~args.debug_written
                THEN result' = Err("io") /\ pc' = "done" /\ out' = out
                ELSE IF extract_code(args.file.sections) = Panicked
                THEN result' = Panicked /\ pc' = "done" /\ out' = out
                ELSE /\ result' = result
                     /\ pc' = "asm"
                     /\ out' = parse_elf_output(args.file.sections)
                                 \o <<[line |-> "HEX:"]>>
                                 \o HexLines(MainCode)
                                 \o <<[line |-> "blank"], [line |-> "ASM:"]>>

\* one iteration of the "ASM" loop
MainAsmLine ==
    /\ pc = "asm"
    /\ iter < Len(MainCode)
    /\ out' = Append(out, AsmLine(MainCode, iter))
    /\ iter' = iter + 1
    /\ UNCHANGED <<word, overflow_checks, args, result, pc>>

MainEnd ==
    /\ pc = "asm"
    /\ iter = Len(MainCode)
    /\ out' = Append(out, [line |-> "blank"])
    /\ result' = Ok(Unit)
    /\ pc' = "done"
    /\ UNCHANGED <<word, overflow_checks, args, iter>>

NextElf == ParseElfFromPath \/ ParseElf \/ MainStart \/ MainAsmLine \/ MainEnd

SpecElf == InitElf /\ [][NextElf]_vars

(***************************************************************************)
(* The listing written by the dis binary: a header, then for each entry    *)
(* its label lines and its instruction line.                               *)
(***************************************************************************)
\* Instr::name: the lowercase mnemonic of each variant
InstrNames ==
    [ Illegal |-> "illegal", Hint |-> "hint", Add |-> "add", Addi |->
      "addi", And |-> "and", Andi |-> "andi", Auipc |-> "auipc", Beq |->
      "beq", Bge |-> "bge", Bgeu |-> "bgeu", Blt |-> "blt", Bltu |->
      "bltu", Bne |-> "bne", Csrrc |-> "csrrc", Csrrci |-> "csrrci",
      Csrrs |-> "csrrs", Csrrsi |-> "csrrsi", Csrrw |-> "csrrw", Csrrwi
      |-> "csrrwi", Ebreak |-> "ebreak", Ecall |-> "ecall", Fence |->
      "fence", FenceI |-> "fencei", Jal |-> "jal", Jalr |-> "jalr", Lb
      |-> "lb", Lbu |-> "lbu", Ld |-> "ld", Lh |-> "lh", Lhu |-> "lhu",
      Lui |-> "lui", Lw |-> "lw", Lwu |-> "lwu", Mret |-> "mret", Or |->
      "or", Ori |-> "ori", Sb |-> "sb", Sd |-> "sd", Sh |-> "sh", Sll
      |-> "sll", Slli |-> "slli", Slt |-> "slt", Slti |-> "slti", Sltiu
      |-> "sltiu", Sltu |-> "sltu", Sra |-> "sra", Srai |-> "srai", Sret
      |-> "sret", Srl |-> "srl", Srli |-> "srli", Sub |-> "sub", Sw |->
      "sw", Uret |-> "uret", Wfi |-> "wfi", Xor |-> "xor", Xori |->
      "xori" ]

Instr_name(i) == InstrNames[i.variant]

LabelSamples == {<<>>, <<"main">>, <<"loop", "end">>}

\* raw bytes of an entry with the instruction decoded from them, if any
EncodingSamples ==
    { [bytes |-> <<255, 255, 255, 255>>, o_instr |-> None],
      [bytes |-> <<19, 5, 21, 0>>,
       o_instr |-> Some([variant |-> "Addi", rd |-> "A0", rs1 |-> "A0",
                         imm |-> 1])],
      [bytes |-> <<231, 0, 5, 0>>,
       o_instr |-> Some([variant |-> "Jalr", rd |-> "Ra", rs1 |-> "A0",
                         imm |-> 0])] }

\* the entries the loop reads: addr, labels, bytes, o_instr
EntrySamples ==
    { [addr |-> a, labels |-> l, bytes |-> e.bytes, o_instr |-> e.o_instr] :
        a \in {0, 4}, l \in LabelSamples, e \in EncodingSamples }

EntrySeqs == UNION {[1..n -> EntrySamples] : n \in 0..MaxEntries}

HeaderLines == <<[line |-> "file format"], [line |-> "section"]>>

LabelLines(entry) ==
    IF entry.labels = <<>> THEN <<>>
    ELSE <<[line |-> "blank"]>>
            \o [k \in 1..Len(entry.labels) |->
                    [line |-> "label", addr |-> entry.addr,
                     label |-> entry.labels[k]]]

\* the text after the raw bytes: mnemonic and arguments, or ???
InstrText(entry) ==
    IF entry.o_instr.tag = "Some"
    THEN [name |-> Instr_name(entry.o_instr.instr),
          args |-> Instr_args(entry.o_instr.instr)]
    ELSE [name |-> "???", args |-> <<>>]

InstrLine(entry) ==
    [line |-> "instr", addr |-> entry.addr, bytes |-> entry.bytes,
     text |-> InstrText(entry)]

EntryLines_decoded_only(entry) ==
    IF entry.o_instr.tag = "Some"
    THEN LabelLines(entry) \o <<InstrLine(entry)>>
    ELSE LabelLines(entry)

\* everything one iteration of the loop writes
EntryLines(entry) == LabelLines(entry) \o <<InstrLine(entry)>>

InitDis ==
    /\ word = U32(0)
    /\ overflow_checks = FALSE
    /\ args \in [fn : {"dis"}, opened : BOOLEAN, entries : EntrySeqs]
    /\ result = Pending
    /\ pc = "start"
    /\ out = <<>>
    /\ iter = 0

\* main up to the loop: the disassembly is parsed, the output is opened and
\* the header is written, or one of these fails and main returns the error
DisStart ==
    /\ pc = "start"
    /\ args.fn = "dis"
    /\ IF args.opened
       THEN out' = HeaderLines /\ pc' = "entries" /\ result' = result
       ELSE out' = out /\ pc' = "done" /\ result' = Err("io")
    /\ UNCHANGED <<word, overflow_checks, args, iter>>

\* one iteration of `for entry in dis.disassembly()`, every write succeeding
DisEntry ==
    /\ pc = "entries"
    /\ iter < Len(args.entries)
    /\ out' = out \o EntryLines(args.entries[iter + 1])
    /\ iter' = iter + 1
    /\ UNCHANGED <<word, overflow_checks, args, result, pc>>

\* an iteration in which a write fails: `?` returns the error from main
DisEntryWriteFails ==
    /\ pc = "entries"
    /\ iter < Len(args.entries)
    /\ \E k \in 0..(Len(EntryLines(args.entries[iter + 1])) - 1) :
            out' = out \o SubSeq(EntryLines(args.entries[iter + 1]), 1, k)
    /\ result' = Err("io")
    /\ pc' = "done"
    /\ UNCHANGED <<word, overflow_checks, args, iter>>

DisEnd ==
    /\ pc = "entries"
    /\ iter = Len(args.entries)
    /\ result' = Ok(Unit)
    /\ pc' = "done"
    /\ UNCHANGED <<word, overflow_checks, args, out, iter>>

NextDis == DisStart \/ DisEntry \/ DisEntryWriteFails \/ DisEnd

SpecDis == InitDis /\ [][NextDis]_vars

(***************************************************************************)
(* Reference arithmetic on the instruction word, independent of the Bits   *)
(* helpers: the field w[hi..lo] as a number, and n-bit two's complement.   *)
(***************************************************************************)
Field(w, hi, lo) == Val({i - lo : i \in {j \in w : lo <= j /\ j <= hi}})

TwosComplement(v, n) == IF v >= Pow2(n - 1) THEN v - Pow2(n) ELSE v

RegOf(idx) == RegNames[idx + 1]

Decoded == pc = "done" /\ result.tag = "Some"

\* C1: decode_opcode is total: every word yields Some(instruction) or None
\* and no operation of the decoder panics, with or without overflow checks.
C1_DecodeTotal ==
    pc = "done" => result.tag \in {"Some", "None"}

C1_Witness ==
    /\ pc = "done"
    /\ overflow_checks
    /\ {7, 20, 31} \subseteq word
    /\ result.tag = "Some"
    /\ result.instr.variant = "Jal"

\* C2: the all-zero word decodes to Some(Illegal), and it is the leading
\* w == 0 arm, ahead of every (opcode, funct3) arm, that decides it.
C2_ZeroWordIllegal ==
    (pc = "done" /\ word = U32(0)) =>
        /\ result = Some([variant |-> "Illegal"])
        /\ FirstMatch(word) = 1
        /\ Arms[1].guard = "w"

C2_Witness ==
    /\ pc = "done"
    /\ word = from_le_bytes(<<0, 0, 0, 0>>)
    /\ result.tag = "Some"

\* C3: Addi, Andi, Lb, Lh, Lw, Ld and Jalr carry imm = bits 31..20 of the
\* word read as a 12-bit two's-complement number, in [-2048, 2047].
C3_ITypeImm ==
    (Decoded /\ result.instr.variant \in {"Addi", "Andi", "Lb", "Lh", "Lw", "Ld", "Jalr"}) =>
        /\ result.instr.imm = TwosComplement(Field(word, 31, 20), 12)
        /\ result.instr.imm \in -2048..2047

\* addi t0, t0, -2048 (93 82 02 80)
C3_Witness ==
    /\ pc = "done"
    /\ word = from_le_bytes(<<147, 130, 2, 128>>)
    /\ result = Some([variant |-> "Addi", rd |-> "T0", rs1 |-> "T0", imm |-> -2048])

\* C4: Slti, Sltiu, Xori and Ori (opcode 0x13, funct3 2, 3, 4, 6) carry the
\* I-immediate sign_ext(bits(31,20), 11) of the word.
C4_AluImmIsIImm ==
    (pc = "done" /\ Field(word, 6, 0) = 19 /\ Field(word, 14, 12) \in {2, 3, 4, 6}) =>
        /\ result.tag = "Some"
        /\ result.instr.variant \in {"Slti", "Sltiu", "Xori", "Ori"}
        /\ result.instr.imm12 = TwosComplement(Field(word, 31, 20), 12)

\* C5: stores carry imm = the 12-bit two's-complement value with bits 11..5
\* from word bits 31..25 and bits 4..0 from word bits 11..7, in
\* [-2048, 2047]; rs1 is the register of bits 19..15 and rs2 of bits 24..20.
C5_StoreImm ==
    (Decoded /\ result.instr.variant \in {"Sb", "Sh", "Sw", "Sd"}) =>
        /\ result.instr.imm =
              TwosComplement(Field(word, 31, 25) * 32 + Field(word, 11, 7), 12)
        /\ result.instr.imm \in -2048..2047
        /\ result.instr.rs1 = RegOf(Field(word, 19, 15))
        /\ result.instr.rs2 = RegOf(Field(word, 24, 20))

C5_Witness ==
    /\ Decoded
    /\ result.instr.variant = "Sw"
    /\ result.instr.imm < 0
    /\ Field(word, 11, 7) = 21
    /\ result.instr.rs1 # result.instr.rs2

\* C6: branches carry imm = the 13-bit two's-complement value assembled
\* from word bit 31 (bit 12), bit 7 (bit 11), bits 30..25 (bits 10..5) and
\* bits 11..8 (bits 4..1); it is even and in [-4096, 4094].
C6_BranchImm ==
    (Decoded /\ result.instr.variant \in {"Beq", "Bne", "Blt", "Bge", "Bltu", "Bgeu"}) =>
        /\ result.instr.imm =
              TwosComplement(Field(word, 31, 31) * 4096 + Field(word, 7, 7) * 2048
                             + Field(word, 30, 25) * 32 + Field(word, 11, 8) * 2, 13)
        /\ result.instr.imm % 2 = 0
        /\ result.instr.imm \in -4096..4094

\* bne t3, t1, -64 (e3 10 6e fc)
C6_Witness ==
    /\ pc = "done"
    /\ word = from_le_bytes(<<227, 16, 110, 252>>)
    /\ result = Some([variant |-> "Bne", rs1 |-> "T3", rs2 |-> "T1", imm |-> -64])

\* C7: every word with opcode 0x6f decodes to Jal, whatever bits 14..12,
\* with imm = the 21-bit two's-complement value assembled from word bit 31
\* (bit 20), bits 19..12 (bits 19..12), bit 20 (bit 11) and bits 30..21
\* (bits 10..1); it is even and in [-1048576, 1048574].
C7_JalImm ==
    (pc = "done" /\ Field(word, 6, 0) = 111) =>
        /\ result.tag = "Some"
        /\ result.instr.variant = "Jal"
        /\ result.instr.imm =
              TwosComplement(Field(word, 31, 31) * 1048576 + Field(word, 19, 12) * 4096
                             + Field(word, 20, 20) * 2048 + Field(word, 30, 21) * 2, 21)
        /\ result.instr.imm % 2 = 0
        /\ result.instr.imm \in -1048576..1048574

\* j -96 (6f f0 1f fa), funct3 bits = 7
C7_Witness ==
    /\ pc = "done"
    /\ word = from_le_bytes(<<111, 240, 31, 250>>)
    /\ Field(word, 14, 12) = 7
    /\ result = Some([variant |-> "Jal", rd |-> "Zero", imm |-> -96])

\* C8: every word with opcode 0x37 (Lui) or 0x17 (Auipc), whatever bits
\* 14..12, carries imm = word bits 31..12, unsigned and unshifted, in
\* [0, 1048575].
C8_UTypeImm ==
    (pc = "done" /\ Field(word, 6, 0) \in {55, 23}) =>
        /\ result.tag = "Some"
        /\ result.instr.variant = (IF Field(word, 6, 0) = 55 THEN "Lui" ELSE "Auipc")
        /\ result.instr.imm = U32(Field(word, 31, 12))
        /\ 31 \notin result.instr.imm
        /\ Val(result.instr.imm) \in 0..1048575

\* lui a0, 912092 (37 c5 ad de), funct3 bits = 4
C8_Witness ==
    /\ pc = "done"
    /\ word = from_le_bytes(<<55, 197, 173, 222>>)
    /\ Field(word, 14, 12) = 4
    /\ result = Some([variant |-> "Lui", rd |-> "A0", imm |-> U32(912092)])

\* C9: Slli, Srli and Srai carry imm5 = the unsigned 5-bit shift amount of
\* word bits 24..20, in [0, 31].
C9_ShiftAmount ==
    (Decoded /\ result.instr.variant \in {"Slli", "Srli", "Srai"}) =>
        /\ result.instr.imm5 = Field(word, 24, 20)
        /\ result.instr.imm5 \in 0..31

\* The 12-bit CSR address an instruction carries: its csr field, or failing
\* that its only 12-bit field imm12; -1 when it has neither.
CsrAddressOf(instr) ==
    IF "csr" \in DOMAIN instr THEN instr.csr
    ELSE IF "imm12" \in DOMAIN instr THEN Val(instr.imm12)
    ELSE -1

\* The 5-bit immediate source operand an instruction carries: its src
\* field, or failing that imm5; -1 when it has neither.
CsrImmSourceOf(instr) ==
    IF "src" \in DOMAIN instr THEN instr.src
    ELSE IF "imm5" \in DOMAIN instr THEN instr.imm5
    ELSE -1

\* C10: for opcode 0x73 and funct3 in {1, 2, 3, 5, 6, 7} the decoded CSR
\* instruction carries the 12-bit CSR address of word bits 31..20,
\* zero-extended, and its source operand: register rs1 (bits 19..15) for
\* csrrw/csrrs/csrrc, the unsigned 5-bit immediate of bits 19..15 for
\* csrrwi/csrrsi/csrrci.
C10_CsrOperands ==
    (pc = "done" /\ Field(word, 6, 0) = 115 /\ Field(word, 14, 12) \in {1, 2, 3, 5, 6, 7}) =>
        /\ result.tag = "Some"
        /\ CsrAddressOf(result.instr) = Field(word, 31, 20)
        /\ IF Field(word, 14, 12) \in {1, 2, 3}
           THEN "rs1" \in DOMAIN result.instr
                /\ result.instr.rs1 = RegOf(Field(word, 19, 15))
           ELSE CsrImmSourceOf(result.instr) = Field(word, 19, 15)

\* C11: among the words with opcode 0x73 and funct3 0, the word with bits
\* 31..20 = 0x302 (30 20 00 73) decodes to Mret and the word with bits
\* 31..20 = 0x105 (10 50 00 73) decodes to Wfi.
C11_MretWfi ==
    /\ (pc = "done" /\ word = from_le_bytes(<<115, 0, 32, 48>>)) =>
            result = Some([variant |-> "Mret"])
    /\ (pc = "done" /\ word = from_le_bytes(<<115, 0, 80, 16>>)) =>
            result = Some([variant |-> "Wfi"])

\* C12: the canonical unimp word 0xc0001073 (73 10 00 c0) decodes to
\* Some(Illegal).
C12_UnimpIllegal ==
    (pc = "done" /\ word = from_le_bytes(<<115, 16, 0, 192>>)) =>
        result = Some([variant |-> "Illegal"])

\* C13: in every decoded instruction that has the field, rd is the register
\* of index word bits 11..7, rs1 of bits 19..15 and rs2 of bits 24..20; the
\* three register conversions succeed on every word, so the Zero fallback
\* of unwrap_or is never taken.
C13_RegisterFields ==
    /\ Decoded =>
        /\ "rd" \in DOMAIN result.instr =>
                result.instr.rd = RegOf(Field(word, 11, 7))
        /\ "rs1" \in DOMAIN result.instr =>
                result.instr.rs1 = RegOf(Field(word, 19, 15))
        /\ "rs2" \in DOMAIN result.instr =>
                result.instr.rs2 = RegOf(Field(word, 24, 20))
    /\ pc = "done" =>
        /\ Reg_try_from(rd_idx(word)).ok
        /\ Reg_try_from(rs1_idx(word)).ok
        /\ Reg_try_from(rs2_idx(word)).ok

\* add a2, a5, a1 (33 86 b7 00)
C13_Witness ==
    /\ pc = "done"
    /\ word = from_le_bytes(<<51, 134, 183, 0>>)
    /\ result = Some([variant |-> "Add", rd |-> "A2", rs1 |-> "A5", rs2 |-> "A1"])

\* C14: at most one arm other than the final catch-all accepts a word: the
\* patterns and guards of the arms are pairwise disjoint, so the decoded
\* instruction is that of the only accepting arm whatever the arm order.
C14_ArmsDisjoint ==
    /\ Cardinality(Matching(word)) <= 1
    /\ Decoded => \A i \in Matching(word) : result.instr.variant = Arms[i].variant

\* a word of a guarded pair: (0x33, 0x0) with funct7 = 0x20 is Sub, not Add
C14_Witness ==
    /\ Decoded
    /\ result.instr.variant = "Sub"
    /\ Cardinality(Matching(word)) = 1

\* The (opcode, funct3, funct7/funct12) combinations that have no entry in
\* the decode table.
AbsentFromTable(w) ==
    LET op == Field(w, 6, 0)
        f3 == Field(w, 14, 12)
        f7 == Field(w, 31, 25)
        f12 == Field(w, 31, 20)
    IN  \/ op \notin {3, 15, 19, 23, 35, 51, 55, 99, 103, 111, 115}
        \/ op = 3 /\ f3 = 7
        \/ op = 15 /\ f3 >= 2
        \/ op = 35 /\ f3 >= 4
        \/ op = 99 /\ f3 \in {2, 3}
        \/ op = 103 /\ f3 # 0
        \/ op = 115 /\ f3 = 4
        \/ op = 51 /\ f3 \in {0, 5} /\ f7 \notin {0, 32}
        \/ op = 19 /\ f3 = 1 /\ f7 # 0
        \/ op = 19 /\ f3 = 5 /\ f7 \notin {0, 32}
        \/ op = 115 /\ f3 = 0 /\ f12 \notin {0, 1, 770, 261}

\* C15: decode_opcode returns None for every nonzero word whose (opcode,
\* funct3, funct7/funct12) combination has no arm.
C15_AbsentIsNone ==
    (pc = "done" /\ word # U32(0) /\ AbsentFromTable(word)) => result = None

(***************************************************************************)
(* Claims about Reg::try_from and the Bits helpers called directly         *)
(***************************************************************************)
RegCalled == pc = "done" /\ args.fn \in {"try_from_u32", "try_from_u8"}

\* C16: Reg::try_from(i) is Ok exactly when i <= 31, distinct indices give
\* distinct registers, `as u8` of the register returns i, an index above 31
\* (u32 or u8) gives Err(RegIndexError) carrying that index, and the default
\* register is Zero.
C16_RegBijection ==
    /\ Reg_default = "Zero"
    /\ Cardinality({RegNames[k] : k \in 1..32}) = 32
    /\ RegCalled =>
          LET r == result.val
              i == args.idx
          IN  /\ result.tag = "Ret"
              /\ r.ok <=> i <= 31
              /\ r.ok => /\ r.reg \in {RegNames[k] : k \in 1..32}
                         /\ Reg_as_u8(r.reg) = i
                         /\ \A j \in (0..31) \ {i} :
                                /\ Reg_try_from(j).ok
                                /\ Reg_try_from(j).reg # r.reg
              /\ ~r.ok => r = [ok |-> FALSE, idx |-> i]

C16_Witness ==
    /\ pc = "done"
    /\ args = [fn |-> "try_from_u8", idx |-> 31]
    /\ result = Ret([ok |-> TRUE, reg |-> "T6"])

\* bits hi..lo of w moved down to position 0, as a set of bit positions
FieldBits(w, hi, lo) == {i - lo : i \in {j \in w : lo <= j /\ j <= hi}}

BitsCalledInRange ==
    pc = "done" /\ args.fn = "bits" /\ args.lo <= args.hi /\ args.hi <= 31

\* C17: for 0 <= lo <= hi <= 31, bits(w, hi, lo) is floor(w / 2^lo) mod
\* 2^(hi-lo+1), and bit(w, i) equals bits(w, i, i).
C17_BitsClosedForm ==
    /\ BitsCalledInRange =>
          /\ result = Ret(FieldBits(word, args.hi, args.lo))
          /\ (31 \notin word /\ args.lo <= 30 /\ args.hi - args.lo <= 29) =>
                Val(result.val) =
                    (Val(word) \div Pow2(args.lo)) % Pow2(args.hi - args.lo + 1)
          /\ (31 \notin word /\ args.lo <= 30 /\ args.hi - args.lo > 29) =>
                Val(result.val) = Val(word) \div Pow2(args.lo)
          /\ (31 \notin word /\ args.lo = 31) => Val(result.val) = 0
          /\ (args.hi = 31 /\ args.lo = 0) => result.val = word
    /\ (pc = "done" /\ args.fn = "bit" /\ args.idx <= 31) =>
          /\ result = Ret(bits(word, args.idx, args.idx))
          /\ result = Ret(FieldBits(word, args.idx, args.idx))

C17_Witness ==
    /\ pc = "done"
    /\ word = TestWord
    /\ args = [fn |-> "bits", hi |-> 20, lo |-> 5]
    /\ result = Ret(U32(28151))

BitsCalledReversed == pc = "done" /\ args.fn = "bits" /\ args.hi < args.lo

\* C18 as stated: bits(w, hi, lo) with hi < lo is rejected by an assertion
\* and returns no value.
C18_ReversedRejected == BitsCalledReversed => result = Panicked

\* C18: bits(w, hi, lo) with hi < lo <= 31 is not rejected; the call returns
\* the value 0.
C18_ReversedReturnsZero ==
    (BitsCalledReversed /\ args.lo <= 31) => result = Ret(U32(0))

C18_Witness ==
    /\ pc = "done"
    /\ word = TestWord
    /\ args = [fn |-> "bits", hi |-> 16, lo |-> 31]
    /\ result = Ret(U32(0))

\* C19: for hi in 0..30, every bit of sign_ext(w, hi) above hi equals bit hi
\* of w and every bit at or below hi equals the same bit of w.
C19_SignExtReplacesUpper ==
    (pc = "done" /\ args.fn = "sign_ext" /\ args.hi <= 30) =>
        /\ result.tag = "Ret"
        /\ AsU32(result.val) =
              (word \cap (0..args.hi))
                  \cup (IF args.hi \in word THEN (args.hi + 1)..31 ELSE {})

\* v read as a two's-complement number whose sign bit is bit hi
SignedValue(v, hi) ==
    LET low == Val(v \ {hi})
    IN  IF hi \notin v THEN low
        ELSE IF hi = 0 THEN low - 1
        ELSE (low - Pow2(hi - 1)) - Pow2(hi - 1)

SignExtCalledOnFitting ==
    /\ pc = "done"
    /\ args.fn = "sign_ext"
    /\ args.hi <= 31
    /\ word \subseteq 0..args.hi

\* C20: for hi in 0..31 and v < 2^(hi+1), sign_ext(v, hi) returns without
\* error the value of v as an (hi+1)-bit two's-complement number, including
\* hi = 31 with bit 31 set.
C20_SignExtRoundTrip ==
    SignExtCalledOnFitting => result = Ret(SignedValue(word, args.hi))

(***************************************************************************)
(* Claims about the SYSTEM and register-register rows of the decode table  *)
(***************************************************************************)
\* C28: the ecall encoding 0x00000073 decodes to Ecall, the ebreak encoding
\* 0x00100073 decodes to Ebreak, and the two never decode to the same
\* variant.
C28_EcallEbreak ==
    /\ (pc = "done" /\ word = from_le_bytes(<<115, 0, 0, 0>>)) =>
            (result.tag = "Some" /\ result.instr.variant = "Ecall")
    /\ (pc = "done" /\ word = from_le_bytes(<<115, 0, 16, 0>>)) =>
            (result.tag = "Some" /\ result.instr.variant = "Ebreak")

\* C29: decode_opcode returns None for every word with opcode 0x33 whose
\* funct7 is neither 0x00 nor 0x20, whatever its funct3.
C29_RegRegOutsideBase ==
    (/\ pc = "done"
     /\ Field(word, 6, 0) = 51
     /\ Field(word, 31, 25) \notin {0, 32}) => result = None

\* C30: bits(w, hi, lo) with hi < lo <= 31 returns 0 for every word w, as
\* the test asserts for bits(16, 31) of 0xdeadbeef, and does not panic, in a
\* debug build as in a release build.
C30_ReversedRangeIsZero ==
    (pc = "done" /\ args.fn = "bits" /\ args.hi < args.lo /\ args.lo <= 31) =>
        /\ result # Panicked
        /\ result.tag = "Ret"
        /\ result.val = {}

C30_Witness ==
    /\ pc = "done"
    /\ overflow_checks
    /\ word = TestWord
    /\ args.fn = "bits" /\ args.hi = 16 /\ args.lo = 31
    /\ result.tag = "Ret" /\ result.val = U32(0)

(***************************************************************************)
(* Claims about Instr::args                                                *)
(***************************************************************************)
ArgsCalledOn(variants) ==
    pc = "done" /\ args.fn = "args" /\ args.instr.variant \in variants

\* C21: args() of every 3-operand ALU/compare instruction returns exactly
\* three arguments: rd, rs1, then rs2 (register forms) or the immediate
\* (immediate forms).
C21_AluArgs ==
    /\ ArgsCalledOn({"Add", "Sub", "Sll", "Slt", "Sltu", "Xor", "Srl", "Sra",
                     "Or", "And"}) =>
          result = Ret(<<Register(args.instr.rd), Register(args.instr.rs1),
                         Register(args.instr.rs2)>>)
    /\ ArgsCalledOn({"Addi", "Andi"}) =>
          result = Ret(<<Register(args.instr.rd), Register(args.instr.rs1),
                         SignedImm(args.instr.imm)>>)
    /\ ArgsCalledOn({"Slti", "Sltiu", "Xori", "Ori"}) =>
          result = Ret(<<Register(args.instr.rd), Register(args.instr.rs1),
                         SignedImm(args.instr.imm12)>>)
    /\ ArgsCalledOn({"Slli", "Srli", "Srai"}) =>
          /\ result.tag = "Ret"
          /\ Len(result.val) = 3
          /\ result.val[1] = Register(args.instr.rd)
          /\ result.val[2] = Register(args.instr.rs1)
          /\ result.val[3].arg \in {"UnsignedImm", "SignedImm"}
          /\ result.val[3].value = args.instr.imm5

\* C22: args() of every load (Lb, Lh, Lw, Ld, Lbu, Lhu, Lwu) returns exactly
\* Register(rd) followed by Address{base: rs1, offset: imm}.
C22_LoadArgs ==
    /\ ArgsCalledOn({"Lb", "Lh", "Lw", "Ld"}) =>
          result = Ret(<<Register(args.instr.rd),
                         Address(args.instr.rs1, args.instr.imm)>>)
    /\ ArgsCalledOn({"Lbu", "Lhu", "Lwu"}) =>
          /\ result.tag = "Ret"
          /\ Len(result.val) = 2
          /\ result.val[1] = Register(args.instr.rd)
          /\ result.val[2].arg = "Address"
          /\ result.val[2].base = args.instr.rs1
          /\ AsU32(result.val[2].offset) = args.instr.imm

\* C23: args() of Jalr returns the single argument Address{base: rs1,
\* offset: imm} exactly when rd is Ra, and Register(rd) followed by that
\* Address for every other rd.
C23_JalrArgs ==
    ArgsCalledOn({"Jalr"}) =>
        LET i == args.instr
        IN  /\ result.tag = "Ret"
            /\ (Len(result.val) = 1) <=> (i.rd = "Ra")
            /\ i.rd = "Ra" => result.val = <<Address(i.rs1, i.imm)>>
            /\ i.rd # "Ra" =>
                  result.val = <<Register(i.rd), Address(i.rs1, i.imm)>>

C23_Witness ==
    /\ pc = "done"
    /\ args = [fn |-> "args",
               instr |-> [variant |-> "Jalr", rd |-> "Ra", rs1 |-> "A0",
                          imm |-> 0]]
    /\ result = Ret(<<Address("A0", 0)>>)

(***************************************************************************)
(* Claims about code extraction and the listing of the extracted words     *)
(***************************************************************************)
\* the call extracts from an ELF whose first .text section lies in the buffer
ExtractsText ==
    /\ args.fn \in {"parse_elf_from_path", "parse_elf", "main"}
    /\ args.file.kind = "Elf"
    /\ TextIndex(args.file.sections) # 0
    /\ args.file.sections[TextIndex(args.file.sections)].in_buffer

TextBytes == args.file.sections[TextIndex(args.file.sections)].bytes

LibraryCallDone ==
    pc = "done" /\ args.fn \in {"parse_elf_from_path", "parse_elf"}

\* C24: extracting code from a section whose length is not a multiple of 4
\* reports a failure; whenever extraction succeeds the number of words
\* times 4 equals the section length.
C24_TruncationReported ==
    /\ (LibraryCallDone /\ ExtractsText /\ Len(TextBytes) % 4 # 0) =>
            result.tag = "Err"
    /\ (LibraryCallDone /\ result.tag = "Ok") =>
            4 * Len(result.val) = Len(TextBytes)
    /\ (args.fn = "main" /\ pc = "asm") => 4 * Len(MainCode) = Len(TextBytes)

\* C25: every structural failure of code extraction (no .text section, an
\* input that is not an ELF object) is returned as an Err value; no call of
\* parse_elf or parse_elf_from_path ends in a panic.
C25_FailuresAreErr ==
    LibraryCallDone =>
        /\ result # Panicked
        /\ (args.file.kind # "Elf" \/ TextIndex(args.file.sections) = 0) =>
                result.tag = "Err"

\* word i of a byte sequence, read little-endian bit by bit
WordAt(bytes, i) ==
    {j \in 0..31 : (j % 8) \in U32(bytes[4 * i + (j \div 8) + 1])}

AsmLines == SelectSeq(out, LAMBDA l : l.line = "asm")

\* C26: word i of the section is built little-endian from bytes 4i..4i+3
\* and is listed at address base + 4*i; the listed addresses are exactly
\* base, base+4, ..., base+4*(n-1).  The listing starts at base 0.
C26_WordsAndAddresses ==
    /\ (LibraryCallDone /\ result.tag = "Ok") =>
            /\ Len(result.val) = Len(TextBytes) \div 4
            /\ \A i \in 0..(Len(result.val) - 1) :
                    result.val[i + 1] = WordAt(TextBytes, i)
    /\ (args.fn = "main" /\ pc \in {"asm", "done"}) =>
            /\ Len(AsmLines) = iter
            /\ \A i \in 0..(iter - 1) :
                    /\ AsmLines[i + 1].addr = 0 + 4 * i
                    /\ AsmLines[i + 1].text =
                            dis_decode_opcode(WordAt(TextBytes, i))
            /\ (pc = "done" /\ result = Ok(Unit) /\ args.file.kind = "Elf") =>
                    iter = Len(TextBytes) \div 4

C26_Witness ==
    /\ pc = "done"
    /\ args.fn = "main"
    /\ result = Ok(Unit)
    /\ ExtractsText
    /\ TextBytes = <<19, 0, 0, 0, 0, 0, 19, 0>>
    /\ Len(AsmLines) = 2
    /\ AsmLines[1] = [line |-> "asm", addr |-> 0,
                      text |-> [fmt |-> "instr", variant |-> "Addi"]]
    /\ AsmLines[2].addr = 4

(***************************************************************************)
(* Claims about the listing loop                                           *)
(***************************************************************************)
\* the lines expected for one entry: a blank line and one line per label,
\* in label order, when it has labels, then its instruction line
ExpectedEntry(e) ==
    (IF Len(e.labels) > 0 THEN <<[line |-> "blank"]>> ELSE <<>>)
        \o [j \in 1..Len(e.labels) |->
                [line |-> "label", addr |-> e.addr, label |-> e.labels[j]]]
        \o <<[line |-> "instr", addr |-> e.addr, bytes |-> e.bytes,
              text |-> IF e.o_instr = None
                       THEN [name |-> "???", args |-> <<>>]
                       ELSE [name |-> Instr_name(e.o_instr.instr),
                             args |-> Instr_args(e.o_instr.instr)]]>>

RECURSIVE ExpectedListing(_, _)
ExpectedListing(entries, k) ==
    IF k = 0 THEN <<>>
    ELSE ExpectedListing(entries, k - 1) \o ExpectedEntry(entries[k])

InstrLinesWritten == SelectSeq(out, LAMBDA l : l.line = "instr")

ListingRuns ==
    args.fn = "dis" /\ (pc = "entries" \/ (pc = "done" /\ result = Ok(Unit)))

\* C27: every entry yields exactly one instruction line, in entry order,
\* whether or not its word decoded (??? when it did not); an undecodable
\* word never stops or skips the output of a later entry; the label lines
\* of an entry all precede its instruction line, in label order.
C27_ListsThroughMisses ==
    /\ ListingRuns =>
          /\ out = HeaderLines \o ExpectedListing(args.entries, iter)
          /\ Len(InstrLinesWritten) = iter
          /\ \A k \in 1..iter :
                /\ InstrLinesWritten[k].addr = args.entries[k].addr
                /\ InstrLinesWritten[k].bytes = args.entries[k].bytes
                /\ (InstrLinesWritten[k].text.name = "???")
                      <=> (args.entries[k].o_instr = None)
    /\ (args.fn = "dis" /\ pc = "done" /\ result = Ok(Unit)) =>
          iter = Len(args.entries)
    /\ (args.fn = "dis" /\ pc = "done" /\ iter < Len(args.entries)) =>
          result = Err("io")

C27_Witness ==
    /\ args.fn = "dis"
    /\ pc = "done"
    /\ result = Ok(Unit)
    /\ Len(args.entries) = 2
    /\ args.entries[1].o_instr = None
    /\ args.entries[1].labels = <<"loop", "end">>
    /\ args.entries[2].o_instr # None
    /\ Len(InstrLinesWritten) = 2
    /\ InstrLinesWritten[1].text.name = "???"
    /\ InstrLinesWritten[2].text.name = "addi"

====
